---- MODULE Spec2Model ----
(***************************************************************************)
(* The retry layer of CheckLogsLogger (lib/logger): log() with its catch   *)
(* branch, the retry queue, the retry timers set by setTimeout, flush(),   *)
(* clearRetryQueue() and setEnabledLevels(); its console output; its       *)
(* default context, _buildContext() and child(); and getSummary() of       *)
(* CheckLogsStats (lib/stats) with the analytics functions it calls.       *)
(*                                                                         *)
(* Each part has its specification: Spec (delivery), SpecFlush (delivery   *)
(* beside a flush() call), SpecConsole (delivery and console), SpecFamily  *)
(* (child loggers and their contexts), SpecContext (_buildContext) and     *)
(* SpecStats (getSummary).  The variables of the other parts keep their    *)
(* initial values in each of them.                                         *)
(*                                                                         *)
(* JavaScript runs one task at a time, so every action below is one run    *)
(* of the event loop between two suspension points (the await of the HTTP  *)
(* send, a timer, the await of flush()'s sleep).  A retry timer may fire   *)
(* at any step after it was set: network latencies are arbitrary, so the   *)
(* model keeps the delay of each timer as data and does not order timers   *)
(* by wall-clock time.  flush() measures time, so the time elapsed since   *)
(* its call is a variable.  addedAt (Date.now()) of a queue item is read   *)
(* by no decision of the code and is left out.                             *)
(***************************************************************************)
EXTENDS Integers, Sequences, FiniteSets, TLC

VARIABLES
    retryQueue,     \* this.retryQueue: sequence of [message, level, retryCount]
    inflight,       \* log() invocations suspended at `await super.log(...)`
    timers,         \* pending setTimeout callbacks of the catch branch
    calls,          \* one record per application call of log(): its logData,
                    \* what its promise settled to, and the history of its chain
    enabledLevels,  \* this.enabledLevels
    flushPc,        \* "idle" | "sleeping" | "done": the one flush() call
    flushTimeout,   \* its timeout argument (ms)
    elapsed,        \* Date.now() - startTime of the flush() call (ms)
    wakeAt,         \* elapsed time at which the 100 ms sleep may resume
    flushResult,    \* what flush() returned
    emptyBefore,    \* history: the queue was empty at some instant of the
                    \* flush() call at which less than timeout had elapsed
    quiet,          \* history: clearRetryQueue() was called while no send was
                    \* in flight, and log() was not called since
    silent,         \* this.silent
    consoleOutput,  \* this.consoleOutput
    printed,        \* the console lines the last step wrote, in order
    server,         \* the stats service: the logs it has counted, per level
    statsPc,        \* "idle" | "waiting" | "done": the one getSummary() call
    fetches,        \* the GET requests of that call, in the order they were
                    \* sent: what each returned, "pending" until it returns
    summary,        \* what getSummary() returned
    defaultSource,  \* this.defaultSource ("null" for null)
    defaultUserId,  \* this.defaultUserId (0 for null)
    includeTimestamp, \* this.includeTimestamp
    includeHostname,  \* this.includeHostname
    defaultContext, \* this.defaultContext: a reference into heap
    heap,           \* the context objects: reference -> mapping of keys
    children,       \* the loggers made by child(), in the order of the calls
    built,          \* the last _buildContext() call and what it returned
    arrived,        \* the data of the response an analytics function fetched,
                    \* as the service sent it
    response,       \* that data as the function holds it in memory
    analysis        \* the analytics function that ran and what it returned

vars == <<retryQueue, inflight, timers, calls, enabledLevels,
          flushPc, flushTimeout, elapsed, wakeAt, flushResult, emptyBefore,
          quiet, silent, consoleOutput, printed,
          server, statsPc, fetches, summary,
          defaultSource, defaultUserId, includeTimestamp, includeHostname,
          defaultContext, heap, children, built,
          arrived, response, analysis>>

---------------------------------------------------------------------------
\* Bounds of the model.

\* Number of log() calls the application makes.
MaxCalls == 2

\* Program constants.
maxRetries == 3
retryDelay == 1000
PollInterval == 100

\* Number of logs the stats service counts while it is followed.
MaxServerLogs == 2

\* Inputs.  "" is a message client validation rejects; "undef" is a logData
\* without a level field.
LogInputs ==
    {[message |-> "a", level |-> "undef"],
     [message |-> "a", level |-> "error"],
     [message |-> "", level |-> "undef"]}

\* The records logged while a flush() call is followed.
FlushLogInputs ==
    {[message |-> "a", level |-> "undef"]}

\* The records logged while the console is followed.
ConsoleLogInputs ==
    {[message |-> "a", level |-> "undef"],
     [message |-> "a", level |-> "error"]}
AllLevels == {"info", "warning", "error", "critical", "debug"}
LevelSets == {AllLevels, {"error"}}
Timeouts == {0, 150}
TickSteps == {50, 100}
TransportErrors == {"NetworkError"}

\* References of the context objects: the {} the root's constructor makes,
\* the object the application holds, and the objects child() makes.
RootRef == <<"root", 0>>
AppRef == <<"app", 0>>
MergedRef(n) == <<"merged", n>>

\* Keys and values of the contexts the application writes.
CtxKeys == {"a", "_timestamp"}
CtxValues == {"v1", "v2"}

\* The key written while the child loggers are followed.
FamilyKeys == {"a"}

\* The options the root logger is constructed with while the contexts and
\* the child loggers are followed.
RootOptions ==
    {[source |-> "svc", user_id |-> 7],
     [defaultContext |-> AppRef, includeTimestamp |-> FALSE],
     [includeTimestamp |-> FALSE, includeHostname |-> FALSE]}

\* The additionalOptions handed to child().
ChildOptions ==
    {[k \in {} |-> TRUE],
     [silent |-> TRUE, enabledLevels |-> {"error"}],
     [defaultContext |-> AppRef]}

\* Number of child() calls.
MaxChildren == 2

---------------------------------------------------------------------------
\* Pure helpers of the code.

\* logData.level || 'info'
EffLevel(level) ==
    IF level = "undef" THEN "info" ELSE level

\* this.enabledLevels.includes(logData.level || 'info')
LevelEnabled(levels, d) ==
    EffLevel(d.level) \in levels

\* _validateLogData: `!logData.message` rejects the empty message; the other
\* fields of enhancedData are valid by construction of the inputs.
ValidLogData(d) ==
    d.message # ""

\* item.logData.message === logData.message && item.logData.level === logData.level
SameKey(x, d) ==
    x.message = d.message /\ x.level = d.level

InQueue(q, d) ==
    \E i \in 1..Len(q) : SameKey(q[i], d)

\* _addToRetryQueue without its `if (!existing)`.
AddToRetryQueue_NoDedup(q, d, retryCount) ==
    Append(q, [message |-> d.message, level |-> d.level, retryCount |-> retryCount + 1])

\* _addToRetryQueue
AddToRetryQueue(q, d, retryCount) ==
    IF InQueue(q, d)
    THEN q
    ELSE Append(q, [message |-> d.message, level |-> d.level, retryCount |-> retryCount + 1])

\* _removeFromRetryQueue comparing the message alone.
RemoveFromRetryQueue_OtherLevel(q, d) ==
    SelectSeq(q, LAMBDA x : ~(x.message = d.message /\ x.level # d.level))

\* _removeFromRetryQueue
RemoveFromRetryQueue(q, d) ==
    SelectSeq(q, LAMBDA x : ~SameKey(x, d))

\* the delay growing by retryDelay per retry instead of doubling
Backoff_Linear(retryCount) ==
    retryDelay * (retryCount + 1)

\* getRetryQueueStatus(): count and the items' message, level (as logged:
\* "undef" when the record has none) and retryCount; addedAt is left out.
GetRetryQueueStatus(q) ==
    [count |-> Len(q),
     items |-> [i \in 1..Len(q) |->
                  [message |-> q[i].message, level |-> q[i].level,
                   retryCount |-> q[i].retryCount]]]

\* this.retryDelay * Math.pow(2, retryCount)
Backoff(retryCount) ==
    retryDelay * (2 ^ retryCount)

\* the retry invoked with retryCount instead of retryCount + 1
NextRetryCount_Same(retryCount) ==
    retryCount

\* the retryCount the scheduled retry is invoked with
NextRetryCount(retryCount) ==
    retryCount + 1

\* the catch branch retrying once more: retryCount <= this.maxRetries
MayRetry_Inclusive(retryCount) ==
    retryCount <= maxRetries

\* `if (retryCount < this.maxRetries)` of the catch branch
MayRetry(retryCount) ==
    retryCount < maxRetries

\* `if (retryCount > 0)` of the success branch
RemovesOnSuccess(retryCount) ==
    retryCount > 0

---------------------------------------------------------------------------
\* Bookkeeping of a call's chain.

Ids == 1..Len(calls)

LogDataOf(id) ==
    [message |-> calls[id].message, level |-> calls[id].level]

NewCall(d) ==
    [message |-> d.message, level |-> d.level, result |-> "pending",
     attempts |-> 0, failed |-> 0, lastRc |-> -1, delivered |-> FALSE]

\* the outcome of every invocation handed to the application's promise
Settle_EveryInvocation(cs, id, retryCount, outcome) ==
    [cs EXCEPT ![id].result = outcome]

\* The promise of the application's call settles with the outcome of the
\* invocation with retryCount 0; the promise of a retry invocation is the
\* one the timer callback swallows with .catch(() => {}).
Settle(cs, id, retryCount, outcome) ==
    IF retryCount = 0 THEN [cs EXCEPT ![id].result = outcome] ELSE cs

\* An invocation that passed the level check: it goes on to super.log, which
\* validates and sends.
MarkAttempt(cs, id, retryCount) ==
    [cs EXCEPT ![id].attempts = @ + 1, ![id].lastRc = retryCount]

MarkFailed(cs, id) ==
    [cs EXCEPT ![id].failed = @ + 1]

MarkDelivered(cs, id) ==
    [cs EXCEPT ![id].delivered = TRUE]

\* _consoleLog(level, message, context): nothing when console output is off
\* or the logger is silent, else one line through the console method of the
\* level.
ConsoleLog(d) ==
    IF ~consoleOutput \/ silent
    THEN <<>>
    ELSE CASE EffLevel(d.level) \in {"error", "critical"} -> <<"console.error">>
           [] EffLevel(d.level) = "warning" -> <<"console.warn">>
           [] EffLevel(d.level) = "debug" -> <<"console.debug">>
           [] OTHER -> <<"console.log">>

\* `if (!this.silent) console.error('Failed to send log ...')`
FailureLine ==
    IF ~silent THEN <<"console.error: Failed to send log">> ELSE <<>>

\* A context, and an options object, is a mapping of keys; an absent key is
\* an undefined property.  { ...a, ...b }: the keys of both, b winning.
Overlay_FirstWins(a, b) ==
    [k \in DOMAIN a \cup DOMAIN b |-> IF k \in DOMAIN a THEN a[k] ELSE b[k]]

Overlay(a, b) ==
    [k \in DOMAIN a \cup DOMAIN b |-> IF k \in DOMAIN b THEN b[k] ELSE a[k]]

EmptyCtx == [k \in {} |-> "v1"]

\* context[k] = v
WithKey(ctx, k, v) ==
    [j \in DOMAIN ctx \cup {k} |-> IF j = k THEN v ELSE ctx[j]]

\* delete context[k]
WithoutKey(ctx, k) ==
    [j \in DOMAIN ctx \ {k} |-> ctx[j]]

\* typeof process !== 'undefined': the runtime is Node.js.
ProcessDefined == TRUE

\* _buildContext adding every metadata key whatever the options say.
AddMetadata_NoToggles(context, withTimestamp, withHostname) ==
    LET c1 == WithKey(context, "_timestamp", "now")
        c2 == WithKey(c1, "_hostname", "host")
    IN IF ProcessDefined THEN WithKey(c2, "_process", "proc") ELSE c2

\* The three `if`s of _buildContext: context._timestamp, context._hostname
\* and context._process, assigned in that order.
AddMetadata(context, withTimestamp, withHostname) ==
    LET c1 == IF withTimestamp THEN WithKey(context, "_timestamp", "now") ELSE context
        c2 == IF withHostname THEN WithKey(c1, "_hostname", "host") ELSE c1
    IN IF ProcessDefined THEN WithKey(c2, "_process", "proc") ELSE c2

\* _buildContext(userContext) of a logger with the given default context
\* and toggles: a new mapping.
BuildContextOf(default, userContext, withTimestamp, withHostname) ==
    AddMetadata(Overlay(default, userContext), withTimestamp, withHostname)

\* options[k], or what the constructor takes for a missing one
OptionOr(options, k, missing) ==
    IF k \in DOMAIN options THEN options[k] ELSE missing

\* The fields the constructor sets from its options; fresh is the reference
\* of the {} it makes when options.defaultContext is missing.
Construct(options, fresh) ==
    [source |-> OptionOr(options, "source", "null"),
     user_id |-> OptionOr(options, "user_id", 0),
     defaultContext |-> OptionOr(options, "defaultContext", fresh),
     silent |-> OptionOr(options, "silent", FALSE),
     consoleOutput |-> OptionOr(options, "consoleOutput", TRUE),
     enabledLevels |-> OptionOr(options, "enabledLevels", AllLevels),
     includeTimestamp |-> OptionOr(options, "includeTimestamp", TRUE),
     includeHostname |-> OptionOr(options, "includeHostname", TRUE),
     retryQueue |-> <<>>]

\* History of flush(): see emptyBefore.
NoteEmpty(q, pc, e, t) ==
    emptyBefore' = (emptyBefore \/ (pc = "sleeping" /\ q = <<>> /\ e < t))

FlushVars == <<flushPc, flushTimeout, elapsed, wakeAt, flushResult>>

\* The options of the logger that no step of the delivery changes.
OptionVars == <<silent, consoleOutput>>

\* The stats service and the getSummary() call.
StatsVars == <<server, statsPc, fetches, summary>>

\* The options only the constructor sets.
FixedOptionVars == <<defaultSource, defaultUserId, includeTimestamp, includeHostname>>

\* The default contexts, the child loggers and the _buildContext() call.
FamilyVars == <<defaultContext, heap, children, built>>

\* The response one analytics function works on and what it returned.
AnalyticsVars == <<arrived, response, analysis>>

\* What no step of the delivery touches.
StaticVars == <<StatsVars, FixedOptionVars, FamilyVars, AnalyticsVars>>

\* What no step of the delivery but log() and clearRetryQueue() touches.
OtherVars == <<StaticVars, quiet>>

---------------------------------------------------------------------------
\* An analytics function has fetched data and not run on it yet.
Fetched(data) ==
    /\ arrived = data
    /\ response = data
    /\ analysis = [op |-> "none"]

\* The fields the constructor sets whatever its options are, and no flush()
\* call under way.
InitLogger ==
    /\ retryQueue = <<>>
    /\ inflight = {}
    /\ timers = {}
    /\ calls = <<>>
    /\ flushPc = "idle"
    /\ flushTimeout = 0
    /\ elapsed = 0
    /\ wakeAt = 0
    /\ flushResult = FALSE
    /\ emptyBefore = FALSE
    /\ quiet = FALSE
    /\ printed = <<>>
    /\ server = [info |-> 0, error |-> 0]
    /\ statsPc = "idle"
    /\ fetches = <<>>
    /\ summary = "none"
    /\ children = <<>>
    /\ built = [called |-> FALSE]

\* The fields the constructor sets whatever its options are, no flush() call
\* under way and no analytics function called.
InitDelivery ==
    /\ Fetched([stats_by_level |-> <<>>, daily_stats |-> <<>>])
    /\ InitLogger

\* new CheckLogsLogger(apiKey, options): the fields set from the options.
\* The application holds one context object of its own.
Constructed(options) ==
    LET c == Construct(options, RootRef)
    IN /\ defaultSource = c.source
       /\ defaultUserId = c.user_id
       /\ defaultContext = c.defaultContext
       /\ silent = c.silent
       /\ consoleOutput = c.consoleOutput
       /\ enabledLevels = c.enabledLevels
       /\ includeTimestamp = c.includeTimestamp
       /\ includeHostname = c.includeHostname
       /\ heap = IF c.defaultContext = RootRef
                 THEN (RootRef :> EmptyCtx) @@ (AppRef :> [a |-> "v1"])
                 ELSE (AppRef :> [a |-> "v1"])

\* new CheckLogsLogger(apiKey, {silent: true}): the console plays no part in
\* the delivery, so the delivery is followed on a silent logger.
Init ==
    /\ InitDelivery
    /\ Constructed([silent |-> TRUE])

\* new CheckLogsLogger(apiKey, options) with any silent and consoleOutput.
InitConsole ==
    /\ InitDelivery
    /\ \E s, c \in BOOLEAN : Constructed([silent |-> s, consoleOutput |-> c])

\* new CheckLogsLogger(apiKey, options) for the options of RootOptions.
InitFamily ==
    /\ InitDelivery
    /\ \E options \in RootOptions : Constructed(options)

\* The catch branch of log(): queue the record and set the retry timer when
\* retryCount < maxRetries, then rethrow.
CatchBranch(id, d, retryCount, err, cs, tm, inf, out) ==
    /\ retryQueue' = IF MayRetry(retryCount)
                     THEN AddToRetryQueue(retryQueue, d, retryCount)
                     ELSE retryQueue
    /\ timers' = IF MayRetry(retryCount)
                 THEN tm \cup {[id |-> id, retryCount |-> NextRetryCount(retryCount),
                                delay |-> Backoff(retryCount), stale |-> FALSE]}
                 ELSE tm
    /\ calls' = Settle(MarkFailed(cs, id), id, retryCount, err)
    /\ inflight' = inf
    /\ printed' = out \o FailureLine
    /\ NoteEmpty(retryQueue', flushPc, elapsed, flushTimeout)

\* log() writing the record to the console before it checks the level.
BeginAttempt_ConsoleFirst(id, d, retryCount, cs, tm) ==
    IF ~LevelEnabled(enabledLevels, d)
    THEN /\ calls' = Settle(cs, id, retryCount, "skipped")
         /\ timers' = tm
         /\ printed' = ConsoleLog(d)
         /\ UNCHANGED <<retryQueue, inflight, emptyBefore>>
    ELSE IF ~ValidLogData(d)
    THEN CatchBranch(id, d, retryCount, "ValidationError",
                     MarkAttempt(cs, id, retryCount), tm, inflight, ConsoleLog(d))
    ELSE /\ inflight' = inflight \cup {[id |-> id, retryCount |-> retryCount]}
         /\ calls' = MarkAttempt(cs, id, retryCount)
         /\ timers' = tm
         /\ printed' = ConsoleLog(d)
         /\ UNCHANGED <<retryQueue, emptyBefore>>

\* log(logData, retryCount) up to its first suspension point.
BeginAttempt(id, d, retryCount, cs, tm) ==
    IF ~LevelEnabled(enabledLevels, d)
    THEN /\ calls' = Settle(cs, id, retryCount, "skipped")
         /\ timers' = tm
         /\ printed' = <<>>
         /\ UNCHANGED <<retryQueue, inflight, emptyBefore>>
    ELSE IF ~ValidLogData(d)
    THEN CatchBranch(id, d, retryCount, "ValidationError",
                     MarkAttempt(cs, id, retryCount), tm, inflight, ConsoleLog(d))
    ELSE /\ inflight' = inflight \cup {[id |-> id, retryCount |-> retryCount]}
         /\ calls' = MarkAttempt(cs, id, retryCount)
         /\ timers' = tm
         /\ printed' = ConsoleLog(d)
         /\ UNCHANGED <<retryQueue, emptyBefore>>

\* The application calls logger.log(logData).
LogCall(d) ==
    /\ Len(calls) < MaxCalls
    /\ LET id == Len(calls) + 1
       IN BeginAttempt(id, d, 0, Append(calls, NewCall(d)), timers)
    /\ quiet' = FALSE
    /\ UNCHANGED <<enabledLevels, FlushVars, OptionVars>>
    /\ UNCHANGED StaticVars

\* The HTTP send of an invocation succeeds.
SendOk(a) ==
    /\ a \in inflight
    /\ inflight' = inflight \ {a}
    /\ retryQueue' = IF RemovesOnSuccess(a.retryCount)
                     THEN RemoveFromRetryQueue(retryQueue, LogDataOf(a.id))
                     ELSE retryQueue
    /\ calls' = Settle(MarkDelivered(calls, a.id), a.id, a.retryCount, "resolved")
    /\ NoteEmpty(retryQueue', flushPc, elapsed, flushTimeout)
    /\ printed' = <<>>
    /\ UNCHANGED <<timers, enabledLevels, FlushVars, OptionVars>>
    /\ UNCHANGED OtherVars

\* The HTTP send of an invocation fails; _handleError throws an ApiError or
\* a NetworkError.
SendFail(a, err) ==
    /\ a \in inflight
    /\ CatchBranch(a.id, LogDataOf(a.id), a.retryCount, err, calls, timers,
                   inflight \ {a}, <<>>)
    /\ UNCHANGED <<enabledLevels, FlushVars, OptionVars>>
    /\ UNCHANGED OtherVars

\* A retry timer fires: this.log(logData, retryCount + 1).catch(() => {}).
TimerFire(t) ==
    /\ t \in timers
    /\ BeginAttempt(t.id, LogDataOf(t.id), t.retryCount, calls, timers \ {t})
    /\ UNCHANGED <<enabledLevels, FlushVars, OptionVars>>
    /\ UNCHANGED OtherVars

\* clearRetryQueue() dropping the oldest item only.
ClearRetryQueue_Shift ==
    /\ retryQueue' = IF retryQueue = <<>> THEN <<>> ELSE Tail(retryQueue)
    /\ timers' = {[t EXCEPT !.stale = TRUE] : t \in timers}
    /\ quiet' = (inflight = {})
    /\ NoteEmpty(retryQueue', flushPc, elapsed, flushTimeout)
    /\ printed' = <<>>
    /\ UNCHANGED <<inflight, calls, enabledLevels, FlushVars, OptionVars>>
    /\ UNCHANGED StaticVars

\* clearRetryQueue().  The stale flag is history: it marks the timers that
\* were pending when the queue was cleared; so is quiet.
ClearRetryQueue ==
    /\ retryQueue' = <<>>
    /\ timers' = {[t EXCEPT !.stale = TRUE] : t \in timers}
    /\ quiet' = (inflight = {})
    /\ NoteEmpty(retryQueue', flushPc, elapsed, flushTimeout)
    /\ printed' = <<>>
    /\ UNCHANGED <<inflight, calls, enabledLevels, FlushVars, OptionVars>>
    /\ UNCHANGED StaticVars

\* setEnabledLevels(levels)
SetEnabledLevels(levels) ==
    /\ levels # enabledLevels
    /\ enabledLevels' = levels
    /\ printed' = <<>>
    /\ UNCHANGED <<retryQueue, inflight, timers, calls, FlushVars, emptyBefore,
                   OptionVars>>
    /\ UNCHANGED OtherVars

\* enableConsole()
EnableConsole ==
    /\ consoleOutput' = TRUE
    /\ printed' = <<>>
    /\ UNCHANGED <<retryQueue, inflight, timers, calls, enabledLevels, FlushVars,
                   emptyBefore, silent>>
    /\ UNCHANGED OtherVars

\* disableConsole()
DisableConsole ==
    /\ consoleOutput' = FALSE
    /\ printed' = <<>>
    /\ UNCHANGED <<retryQueue, inflight, timers, calls, enabledLevels, FlushVars,
                   emptyBefore, silent>>
    /\ UNCHANGED OtherVars

\* enableSilent()
EnableSilent ==
    /\ silent' = TRUE
    /\ consoleOutput' = FALSE
    /\ printed' = <<>>
    /\ UNCHANGED <<retryQueue, inflight, timers, calls, enabledLevels, FlushVars,
                   emptyBefore>>
    /\ UNCHANGED OtherVars

\* disableSilent()
DisableSilent ==
    /\ silent' = FALSE
    /\ printed' = <<>>
    /\ UNCHANGED <<retryQueue, inflight, timers, calls, enabledLevels, FlushVars,
                   emptyBefore, consoleOutput>>
    /\ UNCHANGED OtherVars

\* flush() returning whether the timeout was not reached.
FlushPoll_ByTimeout(e, timeout) ==
    IF Len(retryQueue) > 0 /\ e < timeout
    THEN /\ flushPc' = "sleeping"
         /\ wakeAt' = e + PollInterval
         /\ flushResult' = FALSE
    ELSE /\ flushPc' = "done"
         /\ wakeAt' = 0
         /\ flushResult' = (e < timeout)

\* One evaluation of flush()'s loop condition at elapsed time e, and what
\* follows it: another sleep of 100 ms, or the return.
FlushPoll(e, timeout) ==
    IF Len(retryQueue) > 0 /\ e < timeout
    THEN /\ flushPc' = "sleeping"
         /\ wakeAt' = e + PollInterval
         /\ flushResult' = FALSE
    ELSE /\ flushPc' = "done"
         /\ wakeAt' = 0
         /\ flushResult' = (Len(retryQueue) = 0)

\* The application calls logger.flush(timeout).
FlushCall(timeout) ==
    /\ flushPc = "idle"
    /\ flushTimeout' = timeout
    /\ elapsed' = 0
    /\ FlushPoll(0, timeout)
    /\ emptyBefore' = (retryQueue = <<>>)
    /\ printed' = <<>>
    /\ UNCHANGED <<retryQueue, inflight, timers, calls, enabledLevels, OptionVars>>
    /\ UNCHANGED OtherVars

\* Time passes while flush() sleeps; the sleep resumes when its 100 ms are
\* over.
Tick(step) ==
    /\ flushPc = "sleeping"
    /\ elapsed + step <= wakeAt
    /\ elapsed' = elapsed + step
    /\ NoteEmpty(retryQueue, flushPc, elapsed', flushTimeout)
    /\ printed' = <<>>
    /\ UNCHANGED <<retryQueue, inflight, timers, calls, enabledLevels,
                   flushPc, flushTimeout, wakeAt, flushResult, OptionVars>>
    /\ UNCHANGED OtherVars

\* flush() giving up at its timeout by dropping what is still pending.
FlushWake_DropsPending ==
    /\ flushPc = "sleeping"
    /\ elapsed >= wakeAt
    /\ FlushPoll(elapsed, flushTimeout)
    /\ retryQueue' = IF flushPc' = "done" THEN <<>> ELSE retryQueue
    /\ timers' = IF flushPc' = "done" THEN {} ELSE timers
    /\ printed' = <<>>
    /\ UNCHANGED <<inflight, calls, enabledLevels,
                   flushTimeout, elapsed, emptyBefore, OptionVars>>
    /\ UNCHANGED OtherVars

\* The sleep of flush() resumes.
FlushWake ==
    /\ flushPc = "sleeping"
    /\ elapsed >= wakeAt
    /\ FlushPoll(elapsed, flushTimeout)
    /\ printed' = <<>>
    /\ UNCHANGED <<retryQueue, inflight, timers, calls, enabledLevels,
                   flushTimeout, elapsed, emptyBefore, OptionVars>>
    /\ UNCHANGED OtherVars

\* The application has read the result of flush(); it may call it again.
FlushAck ==
    /\ flushPc = "done"
    /\ flushPc' = "idle"
    /\ flushTimeout' = 0
    /\ elapsed' = 0
    /\ wakeAt' = 0
    /\ flushResult' = FALSE
    /\ emptyBefore' = FALSE
    /\ printed' = <<>>
    /\ UNCHANGED <<retryQueue, inflight, timers, calls, enabledLevels, OptionVars>>
    /\ UNCHANGED OtherVars

\* The logger without flush().
Next ==
    \/ \E d \in LogInputs : LogCall(d)
    \/ \E a \in inflight : SendOk(a)
    \/ \E a \in inflight, err \in TransportErrors : SendFail(a, err)
    \/ \E t \in timers : TimerFire(t)
    \/ ClearRetryQueue
    \/ \E levels \in LevelSets : SetEnabledLevels(levels)

Spec == Init /\ [][Next]_vars

\* The delivery with its scheduling: a timer that is set fires, and a send
\* that was started ends, with a response or with an error.
SpecLive ==
    /\ Init
    /\ [][Next]_vars
    /\ WF_vars(\E t \in timers : TimerFire(t))
    /\ WF_vars(\E a \in inflight : SendOk(a) \/ \E err \in TransportErrors : SendFail(a, err))

\* The logger with a flush() call running beside it.
NextFlush ==
    \/ \E d \in FlushLogInputs : LogCall(d)
    \/ \E a \in inflight : SendOk(a)
    \/ \E a \in inflight, err \in TransportErrors : SendFail(a, err)
    \/ \E t \in timers : TimerFire(t)
    \/ ClearRetryQueue
    \/ \E levels \in LevelSets : SetEnabledLevels(levels)
    \/ \E timeout \in Timeouts : FlushCall(timeout)
    \/ \E step \in TickSteps : Tick(step)
    \/ FlushWake
    \/ FlushAck

SpecFlush == Init /\ [][NextFlush]_vars

\* The logger with its console output and the methods that switch it.
NextConsole ==
    \/ \E d \in ConsoleLogInputs : LogCall(d)
    \/ \E a \in inflight : SendOk(a)
    \/ \E a \in inflight, err \in TransportErrors : SendFail(a, err)
    \/ \E t \in timers : TimerFire(t)
    \/ \E levels \in LevelSets : SetEnabledLevels(levels)
    \/ EnableConsole
    \/ DisableConsole
    \/ EnableSilent
    \/ DisableSilent

SpecConsole == InitConsole /\ [][NextConsole]_vars

---------------------------------------------------------------------------
\* The default contexts and the child loggers.

\* What the steps on contexts and children leave alone.
RootVars ==
    <<retryQueue, inflight, timers, calls, enabledLevels, FlushVars, emptyBefore,
      OptionVars, FixedOptionVars, StatsVars, AnalyticsVars, quiet>>

\* Logger 0 is the root; logger i > 0 is the i-th child.
Loggers == 0..Len(children)

ContextRefOf(who) ==
    IF who = 0 THEN defaultContext ELSE children[who].defaultContext

TimestampOf(who) ==
    IF who = 0 THEN includeTimestamp ELSE children[who].includeTimestamp

HostnameOf(who) ==
    IF who = 0 THEN includeHostname ELSE children[who].includeHostname

\* The options child() copies from the logger it is called on.
ParentOptions(mergedContext) ==
    [source |-> defaultSource,
     user_id |-> defaultUserId,
     defaultContext |-> mergedContext,
     silent |-> silent,
     consoleOutput |-> consoleOutput,
     enabledLevels |-> enabledLevels,
     includeTimestamp |-> includeTimestamp,
     includeHostname |-> includeHostname]

\* A logger on which log() was never called.
NothingPending ==
    [inflight |-> {}, timers |-> {}, calls |-> <<>>]

\* child() handing its own default context object to the child after
\* assigning the additional keys to it.
Child_SharesContext(additionalContext, additionalOptions) ==
    /\ Len(children) < MaxChildren
    /\ LET mergedOptions == Overlay(ParentOptions(defaultContext), additionalOptions)
           c == Construct(mergedOptions, defaultContext)
       IN /\ children' = Append(children,
                 c @@ [merged |-> c.defaultContext = defaultContext] @@ NothingPending)
          /\ heap' = [heap EXCEPT ![defaultContext] = Overlay(@, additionalContext)]
    /\ printed' = <<>>
    /\ UNCHANGED <<defaultContext, built, RootVars>>

\* The application calls child(additionalContext, additionalOptions) on the
\* root logger.  mergedContext is a new object; it is kept in the heap when
\* the child refers to it.  merged is history: the child's default context
\* is the object this call made.  The child is a logger of its own: beside
\* its fields it has the sends, timers and calls of its own log().
Child(additionalContext, additionalOptions) ==
    /\ Len(children) < MaxChildren
    /\ LET ref == MergedRef(Len(children) + 1)
           mergedContext == Overlay(heap[defaultContext], additionalContext)
           mergedOptions == Overlay(ParentOptions(ref), additionalOptions)
           c == Construct(mergedOptions, ref)
       IN /\ children' = Append(children,
                 c @@ [merged |-> c.defaultContext = ref] @@ NothingPending)
          /\ heap' = IF c.defaultContext = ref
                     THEN heap @@ (ref :> mergedContext)
                     ELSE heap
    /\ printed' = <<>>
    /\ UNCHANGED <<defaultContext, built, RootVars>>

\* The application assigns a key of a context object it can reach: its own
\* object or logger.defaultContext of any logger.
SetKey(ref, k, v) ==
    /\ ref \in DOMAIN heap
    /\ heap' = [heap EXCEPT ![ref] = WithKey(@, k, v)]
    /\ printed' = <<>>
    /\ UNCHANGED <<defaultContext, children, built, RootVars>>

\* The application deletes a key of a context object it can reach.
DeleteKey(ref, k) ==
    /\ ref \in DOMAIN heap
    /\ k \in DOMAIN heap[ref]
    /\ heap' = [heap EXCEPT ![ref] = WithoutKey(@, k)]
    /\ printed' = <<>>
    /\ UNCHANGED <<defaultContext, children, built, RootVars>>

\* _buildContext writing the call's keys and the metadata into
\* this.defaultContext and returning it.
BuildContext_InPlace(who, userRef) ==
    /\ who \in Loggers
    /\ userRef \in DOMAIN heap
    /\ LET context == BuildContextOf(heap[ContextRefOf(who)], heap[userRef],
                                     TimestampOf(who), HostnameOf(who))
       IN /\ built' = [called |-> TRUE, logger |-> who, user |-> userRef,
                       context |-> context]
          /\ heap' = [heap EXCEPT ![ContextRefOf(who)] = context]
    /\ printed' = <<>>
    /\ UNCHANGED <<defaultContext, children, RootVars>>

\* A logger builds the context of a record: _buildContext(userContext), with
\* a context object of the application as userContext.
BuildContext(who, userRef) ==
    /\ who \in Loggers
    /\ userRef \in DOMAIN heap
    /\ built' = [called |-> TRUE, logger |-> who, user |-> userRef,
                 context |-> BuildContextOf(heap[ContextRefOf(who)], heap[userRef],
                                            TimestampOf(who), HostnameOf(who))]
    /\ printed' = <<>>
    /\ UNCHANGED <<defaultContext, heap, children, RootVars>>

\* The additionalContext handed to child(): none, or the application's
\* object as it is now.
AdditionalContexts ==
    {EmptyCtx, heap[AppRef]}

\* The root logger and its children: child(), the switches of the root and
\* the application's writes to the context objects.
NextFamily ==
    \/ \E ac \in AdditionalContexts, ao \in ChildOptions : Child(ac, ao)
    \/ \E ref \in DOMAIN heap, k \in FamilyKeys, v \in CtxValues : SetKey(ref, k, v)
    \/ \E ref \in DOMAIN heap, k \in FamilyKeys : DeleteKey(ref, k)
    \/ \E levels \in LevelSets : SetEnabledLevels(levels)
    \/ EnableSilent

SpecFamily == InitFamily /\ [][NextFamily]_vars

\* One logger building contexts from its default context and the
\* application's object, both of which the application writes to.
NextContext ==
    \/ \E who \in Loggers, ref \in DOMAIN heap : BuildContext(who, ref)
    \/ \E ref \in DOMAIN heap, k \in CtxKeys, v \in CtxValues : SetKey(ref, k, v)
    \/ \E ref \in DOMAIN heap, k \in CtxKeys : DeleteKey(ref, k)

SpecContext == InitFamily /\ [][NextContext]_vars

---------------------------------------------------------------------------
\* The delivery of a child logger: log() with the child as `this`.  lg is the
\* record of the child; what is returned is the record after the step.

\* The catch branch of log() on lg.
CatchBranchOn(lg, id, d, retryCount, err) ==
    [lg EXCEPT
       !.retryQueue = IF MayRetry(retryCount)
                      THEN AddToRetryQueue(@, d, retryCount)
                      ELSE @,
       !.timers = IF MayRetry(retryCount)
                  THEN @ \cup {[id |-> id, retryCount |-> NextRetryCount(retryCount),
                                delay |-> Backoff(retryCount), stale |-> FALSE]}
                  ELSE @,
       !.calls = Settle(MarkFailed(@, id), id, retryCount, err)]

\* log(logData, retryCount) on lg up to its first suspension point.
BeginAttemptOn(lg, id, d, retryCount) ==
    IF ~LevelEnabled(lg.enabledLevels, d)
    THEN [lg EXCEPT !.calls = Settle(@, id, retryCount, "skipped")]
    ELSE IF ~ValidLogData(d)
    THEN CatchBranchOn([lg EXCEPT !.calls = MarkAttempt(@, id, retryCount)],
                       id, d, retryCount, "ValidationError")
    ELSE [lg EXCEPT !.inflight = @ \cup {[id |-> id, retryCount |-> retryCount]},
                    !.calls = MarkAttempt(@, id, retryCount)]

\* The record a call of lg logged.
LogDataOn(lg, id) ==
    [message |-> lg.calls[id].message, level |-> lg.calls[id].level]

\* The log() calls the application has made, on the root and on its children.
RECURSIVE CallsOf(_)
CallsOf(loggers) ==
    IF loggers = <<>> THEN 0 ELSE Len(loggers[1].calls) + CallsOf(Tail(loggers))

AllCalls ==
    Len(calls) + CallsOf(children)

\* What a step of a child leaves alone: the root and everything else.
NotChildVars ==
    <<inflight, timers, calls, enabledLevels, FlushVars, emptyBefore,
      quiet, OptionVars, FixedOptionVars, StatsVars, AnalyticsVars,
      defaultContext, heap, built>>

\* Child c becomes lg.  The children followed here are silent, as their
\* parent is: they write nothing to the console.
ChildStep(c, lg) ==
    /\ children[c].silent
    /\ children' = [children EXCEPT ![c] = lg]
    /\ printed' = <<>>
    /\ UNCHANGED NotChildVars

\* The application calls log(logData) on child c.
ChildLogCall(c, d) ==
    /\ c \in 1..Len(children)
    /\ AllCalls < MaxCalls
    /\ LET lg == children[c]
           id == Len(lg.calls) + 1
       IN ChildStep(c, BeginAttemptOn([lg EXCEPT !.calls = Append(@, NewCall(d))],
                                      id, d, 0))
    /\ UNCHANGED retryQueue

\* The HTTP send of an invocation of child c succeeds.
ChildSendOk(c, a) ==
    /\ c \in 1..Len(children)
    /\ a \in children[c].inflight
    /\ LET lg == children[c]
       IN ChildStep(c, [lg EXCEPT
              !.inflight = @ \ {a},
              !.retryQueue = IF RemovesOnSuccess(a.retryCount)
                             THEN RemoveFromRetryQueue(@, LogDataOn(lg, a.id))
                             ELSE @,
              !.calls = Settle(MarkDelivered(@, a.id), a.id, a.retryCount, "resolved")])
    /\ UNCHANGED retryQueue

\* The failed log() of a child putting its item into the queue of the root
\* as well.
ChildSendFail_ParentQueue(c, a, err) ==
    /\ c \in 1..Len(children)
    /\ a \in children[c].inflight
    /\ LET lg == children[c]
       IN /\ ChildStep(c, CatchBranchOn([lg EXCEPT !.inflight = @ \ {a}],
                                        a.id, LogDataOn(lg, a.id), a.retryCount, err))
          /\ retryQueue' = IF MayRetry(a.retryCount)
                           THEN AddToRetryQueue(retryQueue, LogDataOn(lg, a.id),
                                                a.retryCount)
                           ELSE retryQueue

\* The HTTP send of an invocation of child c fails.
ChildSendFail(c, a, err) ==
    /\ c \in 1..Len(children)
    /\ a \in children[c].inflight
    /\ LET lg == children[c]
       IN ChildStep(c, CatchBranchOn([lg EXCEPT !.inflight = @ \ {a}],
                                     a.id, LogDataOn(lg, a.id), a.retryCount, err))
    /\ UNCHANGED retryQueue

\* A retry timer of child c fires.
ChildTimerFire(c, t) ==
    /\ c \in 1..Len(children)
    /\ t \in children[c].timers
    /\ LET lg == children[c]
       IN ChildStep(c, BeginAttemptOn([lg EXCEPT !.timers = @ \ {t}],
                                      t.id, LogDataOn(lg, t.id), t.retryCount))
    /\ UNCHANGED retryQueue

\* The root logger with one child: log() on both, clearRetryQueue() and
\* flush() on the root.
NextChildQueue ==
    \/ children = <<>> /\ Child(EmptyCtx, [k \in {} |-> TRUE])
    \/ \E d \in FlushLogInputs : AllCalls < MaxCalls /\ LogCall(d)
    \/ \E a \in inflight : SendOk(a)
    \/ \E a \in inflight, err \in TransportErrors : SendFail(a, err)
    \/ \E t \in timers : TimerFire(t)
    \/ ClearRetryQueue
    \/ \E timeout \in Timeouts : FlushCall(timeout)
    \/ \E step \in TickSteps : Tick(step)
    \/ FlushWake
    \/ FlushAck
    \/ \E c \in 1..Len(children), d \in FlushLogInputs : ChildLogCall(c, d)
    \/ \E c \in 1..Len(children) : \E a \in children[c].inflight : ChildSendOk(c, a)
    \/ \E c \in 1..Len(children) : \E a \in children[c].inflight :
          \E err \in TransportErrors : ChildSendFail(c, a, err)
    \/ \E c \in 1..Len(children) : \E t \in children[c].timers : ChildTimerFire(c, t)

SpecChildQueue == Init /\ [][NextChildQueue]_vars

---------------------------------------------------------------------------
\* CheckLogsStats (lib/stats).  Counts are naturals and dates are day
\* numbers.  A JavaScript number that need not be whole is kept as the
\* fraction [num, den] in lowest terms with den > 0, and a number rounded by
\* Math.round(x * 100) / 100 is kept as its whole number of hundredths.

Null == [null |-> TRUE]
Pending == [pending |-> TRUE]
Failed == [failed |-> TRUE]

Abs(x) ==
    IF x < 0 THEN -x ELSE x

RECURSIVE Gcd(_, _)
Gcd(a, b) ==
    IF b = 0 THEN a ELSE Gcd(b, a % b)

\* n / d for d > 0
Ratio(n, d) ==
    LET g == Gcd(Abs(n), d)
    IN [num |-> n \div g, den |-> d \div g]

\* Math.round(x * 100) / 100, in hundredths: Math.round rounds a half up.
Round2(x) ==
    (200 * x.num + x.den) \div (2 * x.den)

\* reduce((sum, e) => sum + e.count, 0)
RECURSIVE SumCounts(_)
SumCounts(seq) ==
    IF seq = <<>> THEN 0 ELSE seq[1].count + SumCounts(Tail(seq))

\* The reduce with >= for >: the last of the maxima.
RECURSIVE ReduceMax_LastWins(_, _)
ReduceMax_LastWins(max, seq) ==
    IF seq = <<>>
    THEN max
    ELSE ReduceMax_LastWins(IF seq[1].count >= max.count THEN seq[1] ELSE max, Tail(seq))

\* reduce((max, current) => current.count > max.count ? current : max)
RECURSIVE ReduceMax(_, _)
ReduceMax(max, seq) ==
    IF seq = <<>>
    THEN max
    ELSE ReduceMax(IF seq[1].count > max.count THEN seq[1] ELSE max, Tail(seq))

\* getStatsByLevel: stats.data.stats_by_level || []
GetStatsByLevel(data) ==
    data.stats_by_level

\* getDailyStats: stats.data.daily_stats || []
GetDailyStats(data) ==
    data.daily_stats

\* getErrorRate counting the error level alone.
GetErrorRate_ErrorOnly(statsByLevel) ==
    LET totalLogs == SumCounts(statsByLevel)
        errorLogs == SumCounts(SelectSeq(statsByLevel,
                         LAMBDA stat : stat.level = "error"))
    IN IF totalLogs > 0 THEN Ratio(errorLogs * 100, totalLogs) ELSE Ratio(0, 1)

\* getErrorRate, from the level list it fetched
GetErrorRate(statsByLevel) ==
    LET totalLogs == SumCounts(statsByLevel)
        errorLogs == SumCounts(SelectSeq(statsByLevel,
                         LAMBDA stat : stat.level \in {"error", "critical"}))
    IN IF totalLogs > 0 THEN Ratio(errorLogs * 100, totalLogs) ELSE Ratio(0, 1)

\* getMostFrequentLevel, from the level list it fetched
GetMostFrequentLevel(statsByLevel) ==
    IF Len(statsByLevel) = 0
    THEN Null
    ELSE LET mostFrequent == ReduceMax(statsByLevel[1], Tail(statsByLevel))
             totalLogs == SumCounts(statsByLevel)
             percentage == IF totalLogs > 0
                           THEN Ratio(mostFrequent.count * 100, totalLogs)
                           ELSE Ratio(0, 1)
         IN [level |-> mostFrequent.level, count |-> mostFrequent.count,
             percentage |-> Round2(percentage)]

\* getAverageLogsPerDay, from the daily series it fetched
GetAverageLogsPerDay(dailyStats) ==
    IF Len(dailyStats) = 0
    THEN 0
    ELSE Round2(Ratio(SumCounts(dailyStats), Len(dailyStats)))

\* getPeakDay, from the daily series it fetched
GetPeakDay(dailyStats) ==
    IF Len(dailyStats) = 0
    THEN Null
    ELSE ReduceMax(dailyStats[1], Tail(dailyStats))

\* The comparator with a and b exchanged: the oldest first.
RECURSIVE InsertByDateDesc_Ascending(_, _)
InsertByDateDesc_Ascending(x, sorted) ==
    IF sorted = <<>>
    THEN <<x>>
    ELSE IF sorted[1].date <= x.date
         THEN <<sorted[1]>> \o InsertByDateDesc_Ascending(x, Tail(sorted))
         ELSE <<x>> \o sorted

\* Array.prototype.sort((a, b) => new Date(b.date) - new Date(a.date)): the
\* most recent first; the sort is stable, so equal dates keep their order.
RECURSIVE InsertByDateDesc(_, _)
InsertByDateDesc(x, sorted) ==
    IF sorted = <<>>
    THEN <<x>>
    ELSE IF sorted[1].date >= x.date
         THEN <<sorted[1]>> \o InsertByDateDesc(x, Tail(sorted))
         ELSE <<x>> \o sorted

RECURSIVE SortByDateDesc(_, _)
SortByDateDesc(sorted, rest) ==
    IF rest = <<>>
    THEN sorted
    ELSE SortByDateDesc(InsertByDateDesc(rest[1], sorted), Tail(rest))

\* getTrend without the test of the length: slice() stops at the end of a
\* short series.
GetTrend_NoMinimum(dailyStats) ==
    LET sortedStats == SortByDateDesc(<<>>, dailyStats)
        upTo(n) == IF n < Len(sortedStats) THEN n ELSE Len(sortedStats)
        lastWeekLogs == SumCounts(SubSeq(sortedStats, 1, upTo(7)))
        previousWeekLogs == SumCounts(SubSeq(sortedStats, 8, upTo(14)))
        change == IF previousWeekLogs > 0
                  THEN Ratio((lastWeekLogs - previousWeekLogs) * 100,
                             previousWeekLogs)
                  ELSE Ratio(0, 1)
        trend == IF Abs(change.num) > 20 * change.den
                 THEN IF change.num > 0 THEN "increasing" ELSE "decreasing"
                 ELSE "stable"
    IN [trend |-> trend, change |-> Round2(change),
        last_week |-> lastWeekLogs, previous_week |-> previousWeekLogs]

\* getTrend, from the daily series it fetched
GetTrend(dailyStats) ==
    IF Len(dailyStats) < 14
    THEN [trend |-> "insufficient_data", change |-> 0,
          last_week |-> 0, previous_week |-> 0]
    ELSE LET sortedStats == SortByDateDesc(<<>>, dailyStats)
             lastWeekLogs == SumCounts(SubSeq(sortedStats, 1, 7))
             previousWeekLogs == SumCounts(SubSeq(sortedStats, 8, 14))
             change == IF previousWeekLogs > 0
                       THEN Ratio((lastWeekLogs - previousWeekLogs) * 100,
                                  previousWeekLogs)
                       ELSE Ratio(0, 1)
             trend == IF Abs(change.num) > 20 * change.den
                      THEN IF change.num > 0 THEN "increasing" ELSE "decreasing"
                      ELSE "stable"
         IN [trend |-> trend, change |-> Round2(change),
             last_week |-> lastWeekLogs, previous_week |-> previousWeekLogs]

\* The functions getSummary() hands to Promise.all, in that order; each
\* sends its own GET through getStats().
SummaryCalls ==
    <<"getStats", "getErrorRate", "getMostFrequentLevel",
      "getAverageLogsPerDay", "getPeakDay", "getTrend">>

\* What getSummary() returns: { ...baseStats.data, analytics: {...} }, where
\* got[i] is the data the i-th function of SummaryCalls fetched.
SummaryOf(got) ==
    [total_logs |-> got[1].total_logs,
     logs_today |-> got[1].logs_today,
     stats_by_level |-> got[1].stats_by_level,
     daily_stats |-> got[1].daily_stats,
     analytics |->
        [error_rate |-> GetErrorRate(GetStatsByLevel(got[2])),
         most_frequent_level |-> GetMostFrequentLevel(GetStatsByLevel(got[3])),
         average_logs_per_day |-> GetAverageLogsPerDay(GetDailyStats(got[4])),
         peak_day |-> GetPeakDay(GetDailyStats(got[5])),
         trend |-> GetTrend(GetDailyStats(got[6]))]]

\* The response data of GET ?stats=1 when the service has counted sv.info
\* info logs and sv.error error logs, all of them on day 1.
ServerData(sv) ==
    [total_logs |-> sv.info + sv.error,
     logs_today |-> sv.info + sv.error,
     stats_by_level |-> <<[level |-> "info", count |-> sv.info],
                          [level |-> "error", count |-> sv.error]>>,
     daily_stats |-> <<[date |-> 1, count |-> sv.info + sv.error]>>]

ServerStates ==
    {[info |-> i, error |-> e] : i \in 0..MaxServerLogs, e \in 0..MaxServerLogs}

LoggerVars ==
    <<retryQueue, inflight, timers, calls, enabledLevels, FlushVars, emptyBefore,
      OptionVars, FixedOptionVars, FamilyVars, AnalyticsVars, quiet>>

\* The application calls stats.getSummary(): Promise.all starts the six
\* functions, and each runs up to the await of its GET.
GetSummaryCall ==
    /\ statsPc = "idle"
    /\ statsPc' = "waiting"
    /\ fetches' = [i \in 1..Len(SummaryCalls) |-> Pending]
    /\ printed' = <<>>
    /\ UNCHANGED <<server, summary, LoggerVars>>

\* The service counts a log sent by some client.
ServerCounts(level) ==
    /\ server.info + server.error < MaxServerLogs
    /\ server' = [server EXCEPT ![level] = @ + 1]
    /\ printed' = <<>>
    /\ UNCHANGED <<statsPc, fetches, summary, LoggerVars>>

\* The service answers one of the GETs with its current data.
FetchReturns(i) ==
    /\ i \in 1..Len(fetches)
    /\ fetches[i] = Pending
    /\ fetches' = [fetches EXCEPT ![i] = ServerData(server)]
    /\ printed' = <<>>
    /\ UNCHANGED <<server, statsPc, summary, LoggerVars>>

\* One of the GETs fails: _handleError throws, Promise.all rejects and so
\* does getSummary(); the other GETs go on and their results are dropped.
FetchFails(i) ==
    /\ i \in 1..Len(fetches)
    /\ fetches[i] = Pending
    /\ fetches' = [fetches EXCEPT ![i] = Failed]
    /\ statsPc' = IF statsPc = "waiting" THEN "done" ELSE statsPc
    /\ summary' = IF statsPc = "waiting" THEN [rejected |-> "NetworkError"] ELSE summary
    /\ printed' = <<>>
    /\ UNCHANGED <<server, LoggerVars>>

\* Every GET has returned: Promise.all resolves and getSummary() returns.
SummaryReturns ==
    /\ statsPc = "waiting"
    /\ \A i \in 1..Len(fetches) : fetches[i] \notin {Pending, Failed}
    /\ statsPc' = "done"
    /\ summary' = SummaryOf(fetches)
    /\ printed' = <<>>
    /\ UNCHANGED <<server, fetches, LoggerVars>>

\* The application has read the result; it may call getSummary() again.
SummaryAck ==
    /\ statsPc = "done"
    /\ \A i \in 1..Len(fetches) : fetches[i] # Pending
    /\ statsPc' = "idle"
    /\ fetches' = <<>>
    /\ summary' = "none"
    /\ printed' = <<>>
    /\ UNCHANGED <<server, LoggerVars>>

NextStats ==
    \/ GetSummaryCall
    \/ \E level \in {"info", "error"} : ServerCounts(level)
    \/ \E i \in 1..Len(SummaryCalls) : FetchReturns(i)
    \/ \E i \in 1..Len(SummaryCalls) : FetchFails(i)
    \/ SummaryReturns
    \/ SummaryAck

SpecStats == Init /\ [][NextStats]_vars

---------------------------------------------------------------------------
\* The analytics functions, each on the data of the response it fetched.

\* The longest daily series the service sends.
MaxDays == 15

\* The lengths of the daily series: none, one, one day short of the two
\* weeks getTrend() needs, the two weeks, and more.
Lengths == {0, 1, 13, 14, MaxDays}

\* The counts of the most recent day and of the day one week before it.
DayCounts == {0, 10, 12, 13, 16003, 20005, 24007}

\* The count of day k of n: the days older than the two weeks count 5 logs
\* each, the other days none.
DayCount(k, n, last, previous) ==
    IF k = n THEN last
    ELSE IF k = n - 7 THEN previous
    ELSE IF k <= n - 14 THEN 5
    ELSE 0

\* The series of n days, oldest first; a date is its day number.
OldestFirst(n, last, previous) ==
    [k \in 1..n |-> [date |-> k, count |-> DayCount(k, n, last, previous)]]

Reverse(seq) ==
    [i \in 1..Len(seq) |-> seq[Len(seq) + 1 - i]]

\* The entries at the odd places, then those at the even places.
OddsThenEvens(seq) ==
    LET odds == (Len(seq) + 1) \div 2
    IN [i \in 1..Len(seq) |-> IF i <= odds THEN seq[2 * i - 1] ELSE seq[2 * (i - odds)]]

\* The orders in which the service sends the entries.
ArrivalOrders == {"oldest first", "newest first", "mixed"}

Arrange(seq, order) ==
    CASE order = "oldest first" -> seq
      [] order = "newest first" -> Reverse(seq)
      [] order = "mixed" -> OddsThenEvens(seq)

\* daily_stats of the response
DailySeries ==
    {Arrange(OldestFirst(n, last, previous), order) :
        n \in Lengths, last \in DayCounts, previous \in DayCounts,
        order \in ArrivalOrders}

\* stats_by_level of the response
LevelLists ==
    { <<>>,
      <<[level |-> "info", count |-> 80], [level |-> "error", count |-> 15],
        [level |-> "critical", count |-> 5]>>,
      <<[level |-> "info", count |-> 0], [level |-> "error", count |-> 0]>>,
      <<[level |-> "error", count |-> 7], [level |-> "info", count |-> 7],
        [level |-> "critical", count |-> 3]>>,
      <<[level |-> "critical", count |-> 2], [level |-> "error", count |-> 1]>> }

Responses ==
    {[stats_by_level |-> l, daily_stats |-> d] : l \in LevelLists, d \in DailySeries}

\* What no analytics function touches.
NotAnalyticsVars ==
    <<retryQueue, inflight, timers, calls, enabledLevels, FlushVars, emptyBefore,
      OptionVars, FixedOptionVars, FamilyVars, StatsVars, quiet>>

\* An analytics function is called: its GET has returned some data.
InitAnalytics ==
    /\ InitLogger
    /\ Constructed([silent |-> TRUE])
    /\ \E data \in Responses : Fetched(data)

\* The function op returns value to the application.
Returns(op, value) ==
    /\ analysis.op = "none"
    /\ analysis' = [op |-> op, value |-> value]
    /\ printed' = <<>>
    /\ UNCHANGED <<arrived, NotAnalyticsVars>>

GetErrorRateCall ==
    /\ Returns("getErrorRate", GetErrorRate(GetStatsByLevel(response)))
    /\ UNCHANGED response

GetMostFrequentLevelCall ==
    /\ Returns("getMostFrequentLevel", GetMostFrequentLevel(GetStatsByLevel(response)))
    /\ UNCHANGED response

GetAverageLogsPerDayCall ==
    /\ Returns("getAverageLogsPerDay", GetAverageLogsPerDay(GetDailyStats(response)))
    /\ UNCHANGED response

GetPeakDayCall ==
    /\ Returns("getPeakDay", GetPeakDay(GetDailyStats(response)))
    /\ UNCHANGED response

\* getTrend(): dailyStats.sort(...) sorts the array of the response itself,
\* when it holds the two weeks.
GetTrendCall ==
    LET dailyStats == GetDailyStats(response)
    IN /\ Returns("getTrend", GetTrend(dailyStats))
       /\ response' = IF Len(dailyStats) < 14
                      THEN response
                      ELSE [response EXCEPT !.daily_stats = SortByDateDesc(<<>>, dailyStats)]

NextAnalytics ==
    \/ GetErrorRateCall
    \/ GetMostFrequentLevelCall
    \/ GetAverageLogsPerDayCall
    \/ GetPeakDayCall
    \/ GetTrendCall

SpecAnalytics == InitAnalytics /\ [][NextAnalytics]_vars

---------------------------------------------------------------------------
\* What the properties below read from the history of the calls.

\* Something of key d is still going on: a send in flight or a timer set.
PendingForKey(d) ==
    \/ \E a \in inflight : SameKey(calls[a.id], d)
    \/ \E t \in timers : SameKey(calls[t.id], d)

\* Every attempt of call id failed, the last one with retryCount maxRetries.
Exhausted(id) ==
    /\ calls[id].lastRc = maxRetries
    /\ calls[id].failed = calls[id].attempts

AttemptsIn(cs, id) ==
    IF id <= Len(cs) THEN cs[id].attempts ELSE 0

FailedIn(cs, id) ==
    IF id <= Len(cs) THEN cs[id].failed ELSE 0

LastRcIn(cs, id) ==
    IF id <= Len(cs) THEN cs[id].lastRc ELSE -1

\* This step begins a delivery attempt of call id.
BeginsAttempt(id) ==
    AttemptsIn(calls', id) > AttemptsIn(calls, id)

\* This step is the return of flush().
FlushReturns ==
    flushPc # "done" /\ flushPc' = "done"

---------------------------------------------------------------------------
\* C1: in every reachable state the retry queue holds at most one item per
\* (message, level) pair, whatever log() calls, retries and clears happened.
C1_OneItemPerKey ==
    \A i, j \in 1..Len(retryQueue) :
        SameKey(retryQueue[i], retryQueue[j]) => i = j

\* Two calls with the same key have both failed and the key is queued.
C1_Witness ==
    \E i, j \in Ids :
        /\ i # j
        /\ SameKey(calls[i], calls[j])
        /\ calls[i].result = "NetworkError"
        /\ calls[j].result = "NetworkError"
        /\ InQueue(retryQueue, calls[i])

\* C2 (as claimed): once every attempt of a record has failed with a
\* retryable error and its retries are exhausted, with nothing else of that
\* key going on, the queue holds no item of that key.
C2_DroppedWhenExhausted ==
    \A id \in Ids :
        (/\ ValidLogData(calls[id])
         /\ Exhausted(id)
         /\ ~PendingForKey(calls[id]))
        => ~InQueue(retryQueue, calls[id])

\* C3 (as claimed): a record that failed validation is never queued for a
\* retry and no retry timer is set for it.
C3_ValidationNeverRetried ==
    /\ \A i \in 1..Len(retryQueue) : ValidLogData(retryQueue[i])
    /\ \A t \in timers : ValidLogData(calls[t.id])

\* C4 (as claimed): after any successful delivery attempt, first attempt or
\* retry, the queue holds no item of the record's key.
C4_SuccessAlwaysRemoves ==
    [][\A a \in inflight :
          SendOk(a) => ~InQueue(retryQueue', calls[a.id])]_vars

\* C4 (amended): after a successful retry (retryCount > 0) the queue holds no
\* item of the record's key; a successful first attempt (retryCount 0)
\* leaves the queue as it was.
C4_RetrySuccessRemoves ==
    [][\A a \in inflight :
          SendOk(a) => IF a.retryCount > 0
                       THEN ~InQueue(retryQueue', calls[a.id])
                       ELSE retryQueue' = retryQueue]_vars

\* A retry of a call was delivered and its key has left the queue, in which
\* the item of another key stays.
C4_Witness ==
    \E i \in Ids :
        /\ calls[i].delivered
        /\ calls[i].failed > 0
        /\ ~InQueue(retryQueue, calls[i])
        /\ Len(retryQueue) > 0

\* C5 (as claimed): when flush() returns true no retry timer is pending
\* (timers whose queue item was discarded by clearRetryQueue() set aside).
C5_FlushTrueNothingPending ==
    [][(FlushReturns /\ flushResult') => \A t \in timers' : t.stale]_vars

\* C6 (as claimed): flush() returns true exactly when the queue was empty at
\* the call or became empty while less than timeout had elapsed.
C6_TrueIffEmptyBeforeTimeout ==
    flushPc = "done" => (flushResult <=> emptyBefore)

\* C6 (amended): flush() returns true exactly when the queue is empty at the
\* poll at which it returns, and it returns false only at a poll at which at
\* least timeout has elapsed.
C6_TrueIffEmptyAtLastPoll ==
    [][FlushReturns =>
          /\ flushResult' = (retryQueue' = <<>>)
          /\ (~flushResult' => elapsed' >= flushTimeout')]_vars

\* flush() returned true although the queue was not empty at any instant
\* before the timeout elapsed.
C6_Witness ==
    /\ flushPc = "done"
    /\ flushResult
    /\ ~emptyBefore
    /\ flushTimeout > 0
    /\ elapsed >= flushTimeout

\* C7 (as claimed): at most one retry timer is pending per key (stated for
\* the records that pass validation, whose failures are failed sends).
C7_OneTimerPerKey ==
    \A t1, t2 \in timers :
        (ValidLogData(calls[t1.id]) /\ SameKey(calls[t1.id], calls[t2.id])) => t1 = t2

\* C8 (as claimed): a retry that was scheduled before clearRetryQueue() makes
\* no delivery attempt after it: when its timer fires no send begins.
C8_NoAttemptAfterClear ==
    [][\A t \in timers :
          (t.stale /\ TimerFire(t)) => inflight' = inflight]_vars

C10_FirstFailureRejects ==
    /\ [](\A id \in Ids :
            calls[id].failed > 0 => calls[id].result \in {"NetworkError", "ValidationError"})
    /\ [][\A id \in Ids :
            calls[id].result # "pending" => calls'[id].result = calls[id].result]_vars

\* A call was rejected and a later retry of it was delivered.
C10_Witness ==
    \E id \in Ids :
        /\ calls[id].result = "NetworkError"
        /\ calls[id].delivered

\* C11: the chain of one log() call makes at most maxRetries retries after
\* its first attempt: no retry is scheduled with a number above maxRetries,
\* and once the attempt with retryCount maxRetries has failed no timer of
\* that call is pending and none of its sends is in flight.
C11_AtMostMaxRetries ==
    /\ \A t \in timers : t.retryCount \in 1..maxRetries
    /\ \A id \in Ids :
          /\ calls[id].attempts <= maxRetries + 1
          /\ calls[id].lastRc <= maxRetries
          /\ Exhausted(id) =>
                /\ \A t \in timers : t.id # id
                /\ \A a \in inflight : a.id # id

\* Every attempt of a call has failed, the first one and maxRetries retries.
C11_Witness ==
    \E id \in Ids :
        /\ ValidLogData(calls[id])
        /\ Exhausted(id)
        /\ calls[id].failed = maxRetries + 1

\* C12: the retry with number k (1..maxRetries) is scheduled with the delay
\* retryDelay * 2^(k-1): 1000, 2000 and 4000 ms, each longer than the one
\* before it.
C12_DelayDoubles ==
    \A t \in timers :
        /\ t.delay = retryDelay * (2 ^ (t.retryCount - 1))
        /\ (t.retryCount = 1 => t.delay = 1000)
        /\ (t.retryCount = 2 => t.delay = 2000)
        /\ (t.retryCount = 3 => t.delay = 4000)
        /\ \A u \in timers : t.retryCount < u.retryCount => t.delay < u.delay

\* The timers of the first and of the last retry are pending side by side.
C12_Witness ==
    \E t, u \in timers :
        /\ t.retryCount = 1
        /\ u.retryCount = maxRetries
        /\ ValidLogData(calls[t.id])
        /\ ValidLogData(calls[u.id])

\* C13: no step of flush() (its call, its sleep, its polls, its return)
\* changes the retry queue, the pending retry timers or the sends in flight;
\* after flush() has returned false every pending retry can still fire.
C13_FlushChangesNothing ==
    /\ [][FlushVars' # FlushVars =>
            /\ retryQueue' = retryQueue
            /\ timers' = timers
            /\ inflight' = inflight
            /\ calls' = calls]_vars
    /\ []((flushPc = "done" /\ ~flushResult) =>
            \A t \in timers : ENABLED TimerFire(t))

\* flush() has returned false at its timeout with an item queued and its
\* retry timer pending.
C13_Witness ==
    /\ flushPc = "done"
    /\ ~flushResult
    /\ flushTimeout > 0
    /\ elapsed >= flushTimeout
    /\ Len(retryQueue) > 0
    /\ \E t \in timers : ~t.stale

\* C14: after clearRetryQueue() the count of getRetryQueueStatus() is 0 and
\* its items are none, whatever the queue held; the call itself starts no
\* send and settles no call.
C14_ClearEmptiesQueue ==
    [][ClearRetryQueue =>
          /\ GetRetryQueueStatus(retryQueue').count = 0
          /\ GetRetryQueueStatus(retryQueue').items = <<>>
          /\ inflight' = inflight
          /\ calls' = calls]_vars

\* The queue is empty after a clear made while the retries of two different
\* keys were pending.
C14_Witness ==
    /\ GetRetryQueueStatus(retryQueue).count = 0
    /\ \E t, u \in timers :
          /\ t.stale
          /\ u.stale
          /\ ~SameKey(calls[t.id], calls[u.id])

\* C15: an invocation of log() for a record whose level (default 'info') is
\* not enabled settles with the skipped result, begins no delivery attempt,
\* writes nothing to the console, leaves the retry queue and the sends in
\* flight as they are and sets no timer; this holds for the application's
\* call and for a retry firing after the level was disabled.
C15_DisabledLevelSkips ==
    [][/\ \A d \in ConsoleLogInputs :
            (LogCall(d) /\ ~LevelEnabled(enabledLevels, d)) =>
                /\ calls'[Len(calls')].result = "skipped"
                /\ calls'[Len(calls')].attempts = 0
                /\ printed' = <<>>
                /\ retryQueue' = retryQueue
                /\ inflight' = inflight
                /\ timers' = timers
       /\ \A t \in timers :
            (TimerFire(t) /\ ~LevelEnabled(enabledLevels, LogDataOf(t.id))) =>
                /\ calls' = calls
                /\ printed' = <<>>
                /\ retryQueue' = retryQueue
                /\ inflight' = inflight
                /\ timers' = timers \ {t}]_vars

\* A call was skipped on a logger whose console output is on, while a
\* record was queued for its retry.
C15_Witness ==
    /\ \E id \in Ids : calls[id].result = "skipped"
    /\ consoleOutput
    /\ ~silent
    /\ Len(retryQueue) > 0
    /\ timers # {}

\* getSummary() awaiting one getStats() and computing every analytics field
\* from the data of that one response.
SummaryOf_OneFetch(got) ==
    [total_logs |-> got[1].total_logs,
     logs_today |-> got[1].logs_today,
     stats_by_level |-> got[1].stats_by_level,
     daily_stats |-> got[1].daily_stats,
     analytics |->
        [error_rate |-> GetErrorRate(GetStatsByLevel(got[1])),
         most_frequent_level |-> GetMostFrequentLevel(GetStatsByLevel(got[1])),
         average_logs_per_day |-> GetAverageLogsPerDay(GetDailyStats(got[1])),
         peak_day |-> GetPeakDay(GetDailyStats(got[1])),
         trend |-> GetTrend(GetDailyStats(got[1]))]]

\* C16 (as claimed): one getSummary() call sends one GET, and the summary it
\* returns is the summary of one response: its raw fields and every field
\* of its analytics are computed from the same data.
C16_OneSnapshotPerSummary ==
    (statsPc = "done" /\ summary # [rejected |-> "NetworkError"]) =>
        /\ Len(fetches) = 1
        /\ \E sv \in ServerStates :
              summary = SummaryOf_OneFetch(<<ServerData(sv)>>)

\* This step changes the content of the context object ref.
Changes(ref) ==
    heap'[ref] # heap[ref]

\* The default context of child c is the same before and after this step.
ChildContextKept(c) ==
    heap'[children[c].defaultContext] = heap[children[c].defaultContext]

\* Child c is independent in this step: a change of the parent's or of a
\* sibling's default context leaves its default context as it was, and a
\* change of its default context leaves the parent's as it was.
IndependentInStep(c) ==
    /\ Changes(defaultContext) => ChildContextKept(c)
    /\ \A d \in 1..Len(children) :
          (d # c /\ Changes(children[d].defaultContext)) => ChildContextKept(c)
    /\ Changes(children[c].defaultContext) => ~Changes(defaultContext)

IsOverlaid(ctx, lower, upper) ==
    /\ DOMAIN ctx = DOMAIN lower \cup DOMAIN upper
    /\ \A k \in DOMAIN ctx :
          ctx[k] = IF k \in DOMAIN upper THEN upper[k] ELSE lower[k]

\* The options of the new child c are the parent's values of before the
\* call, except those given in additionalOptions ao.
OptionsInherited(c, ao) ==
    /\ c.enabledLevels = IF "enabledLevels" \in DOMAIN ao
                         THEN ao.enabledLevels ELSE enabledLevels
    /\ c.consoleOutput = IF "consoleOutput" \in DOMAIN ao
                         THEN ao.consoleOutput ELSE consoleOutput
    /\ c.silent = IF "silent" \in DOMAIN ao THEN ao.silent ELSE silent
    /\ c.includeTimestamp = IF "includeTimestamp" \in DOMAIN ao
                            THEN ao.includeTimestamp ELSE includeTimestamp
    /\ c.includeHostname = IF "includeHostname" \in DOMAIN ao
                           THEN ao.includeHostname ELSE includeHostname
    /\ c.source = IF "source" \in DOMAIN ao THEN ao.source ELSE defaultSource
    /\ c.user_id = IF "user_id" \in DOMAIN ao THEN ao.user_id ELSE defaultUserId

\* C18 (as claimed): the logger child(additionalContext, additionalOptions)
\* returns has the parent's default context overlaid with additionalContext
\* (the child's keys winning) as its default context, and the parent's
\* current enabled levels, console output, silent flag, metadata toggles,
\* source and user id, except the ones given in additionalOptions.
C18_ChildInheritsAndOverlays ==
    [][\A ac \in AdditionalContexts, ao \in ChildOptions :
          Child(ac, ao) =>
              LET c == children'[Len(children')]
              IN /\ IsOverlaid(heap'[c.defaultContext], heap[defaultContext], ac)
                 /\ OptionsInherited(c, ao)]_vars

\* C18 (amended): the same, except that a defaultContext given in
\* additionalOptions becomes the child's default context as it is (the same
\* object, neither the parent's keys nor additionalContext added); without
\* it the child's default context is a new object.
C18_InheritsUnlessContextGiven ==
    [][\A ac \in AdditionalContexts, ao \in ChildOptions :
          Child(ac, ao) =>
              LET c == children'[Len(children')]
              IN /\ IF "defaultContext" \in DOMAIN ao
                    THEN /\ c.defaultContext = ao.defaultContext
                         /\ heap' = heap
                    ELSE /\ c.defaultContext \notin DOMAIN heap
                         /\ IsOverlaid(heap'[c.defaultContext], heap[defaultContext], ac)
                 /\ OptionsInherited(c, ao)]_vars

\* A child made from a silent parent restricted to one level, with a key
\* on which the parent and the child now differ, beside a child made with
\* its own silent flag and levels.
C18_Witness ==
    \E c, d \in 1..Len(children) :
        /\ children[c].merged
        /\ children[c].silent
        /\ children[c].enabledLevels = {"error"}
        /\ children[d].merged
        /\ ~children[d].silent
        /\ children[d].enabledLevels = AllLevels
        /\ "a" \in DOMAIN heap[children[d].defaultContext]

\* The metadata layer of logger who: the keys its configuration and its
\* runtime add, with their values.
MetadataLayer(who) ==
    [k \in (IF TimestampOf(who) THEN {"_timestamp"} ELSE {})
           \cup (IF HostnameOf(who) THEN {"_hostname"} ELSE {})
           \cup (IF ProcessDefined THEN {"_process"} ELSE {}) |->
        CASE k = "_timestamp" -> "now"
          [] k = "_hostname" -> "host"
          [] OTHER -> "proc"]

\* C19: _buildContext(userContext) returns the default context overlaid
\* with userContext overlaid with the metadata keys, the later layer winning
\* on every key, and it changes neither the default context nor userContext
\* (nor any other context object).
C19_LayersInOrder ==
    [][\A who \in Loggers, ref \in DOMAIN heap :
          BuildContext(who, ref) =>
              LET default == heap[ContextRefOf(who)]
                  userContext == heap[ref]
                  lower == [k \in DOMAIN default \cup DOMAIN userContext |->
                              IF k \in DOMAIN userContext
                              THEN userContext[k]
                              ELSE default[k]]
              IN /\ built'.called
                 /\ IsOverlaid(built'.context, lower, MetadataLayer(who))
                 /\ heap' = heap]_vars

\* A context was built from a default context and a call context that
\* disagree on a key, the call context carrying a metadata key of its own.
C19_Witness ==
    /\ built.called
    /\ built.user # defaultContext
    /\ includeTimestamp
    /\ LET d == heap[defaultContext]
           u == heap[built.user]
       IN /\ "a" \in DOMAIN d
          /\ "a" \in DOMAIN u
          /\ d.a # u.a
          /\ "_timestamp" \in DOMAIN u
          /\ built.context.a = u.a
          /\ built.context._timestamp = "now"

\* The keys of the context this step built that neither the default context
\* nor the call context has.
AddedKeys(who, ref) ==
    DOMAIN built'.context \ (DOMAIN heap[ContextRefOf(who)] \cup DOMAIN heap[ref])

\* C20 (as claimed): a metadata key is added only when the configuration
\* enables it; with the timestamp and the hostname toggles off, the built
\* context has only the keys of the default context and of the call context.
C20_MetadataOnlyWhenEnabled ==
    [][\A who \in Loggers, ref \in DOMAIN heap :
          BuildContext(who, ref) =>
              /\ ~TimestampOf(who) => "_timestamp" \notin AddedKeys(who, ref)
              /\ ~HostnameOf(who) => "_hostname" \notin AddedKeys(who, ref)
              /\ (~TimestampOf(who) /\ ~HostnameOf(who)) => AddedKeys(who, ref) = {}]_vars

\* C20 (amended): the timestamp and the hostname are added only when their
\* toggle is on; the process descriptor is added by every call, there being
\* no toggle for it: with both toggles off the built context has the keys
\* of the default context, of the call context and _process.
C20_ProcessAlwaysAdded ==
    [][\A who \in Loggers, ref \in DOMAIN heap :
          BuildContext(who, ref) =>
              /\ ~TimestampOf(who) => "_timestamp" \notin AddedKeys(who, ref)
              /\ ~HostnameOf(who) => "_hostname" \notin AddedKeys(who, ref)
              /\ built'.context._process = "proc"
              /\ (~TimestampOf(who) /\ ~HostnameOf(who)) =>
                    AddedKeys(who, ref) \subseteq {"_process"}]_vars

\* A logger with both toggles off has built a context from a call context
\* with a key: the context has that key and _process, and no timestamp.
C20_Witness ==
    /\ built.called
    /\ ~includeTimestamp
    /\ ~includeHostname
    /\ DOMAIN built.context = {"a", "_process"}

---------------------------------------------------------------------------
\* The analytics functions.

\* The number of entries of the series s that are more recent than entry i.
Newer(s, i) ==
    Cardinality({j \in 1..Len(s) : s[j].date > s[i].date})

\* The sum of the counts of the entries of s at the places of the set I.
RECURSIVE SumAt(_, _)
SumAt(s, I) ==
    IF I = {}
    THEN 0
    ELSE LET i == CHOOSE i \in I : TRUE
         IN s[i].count + SumAt(s, I \ {i})

\* Entry i of s has the greatest count, and no entry before it has it.
IsFirstMax(s, i) ==
    /\ \A j \in 1..Len(s) : s[j].count <= s[i].count
    /\ \A j \in 1..(i - 1) : s[j].count < s[i].count

\* getTrend() has returned for a series of at least two weeks.
TrendComputed ==
    /\ analysis.op = "getTrend"
    /\ Len(arrived.daily_stats) >= 14

\* C21: getTrend() on at least 14 entries sorts them by date, the most
\* recent first; last_week is the sum of the counts of the 7 most recent
\* days and previous_week that of the 7 days before them, whatever the
\* order in which the entries arrived and whatever the older entries
\* count; change is (last_week - previous_week) / previous_week * 100 to
\* the nearest hundredth when previous_week > 0, and 0 otherwise.
C21_TrendOfTheTwoWeeks ==
    TrendComputed =>
        LET s == arrived.daily_stats
            sorted == response.daily_stats
            last == SumAt(s, {i \in 1..Len(s) : Newer(s, i) < 7})
            previous == SumAt(s, {i \in 1..Len(s) : Newer(s, i) \in 7..13})
            r == analysis.value
        IN /\ \A i, j \in 1..Len(sorted) : i < j => sorted[i].date >= sorted[j].date
           /\ r.last_week = last
           /\ r.previous_week = previous
           /\ IF previous > 0
              THEN 2 * Abs(r.change * previous - 10000 * (last - previous)) <= previous
              ELSE r.change = 0

\* getTrend() has returned for a series longer than two weeks that did not
\* arrive sorted, with a change that is no whole number of percents.
C21_Witness ==
    /\ TrendComputed
    /\ Len(arrived.daily_stats) > 14
    /\ arrived.daily_stats # response.daily_stats
    /\ analysis.value.previous_week > 0
    /\ analysis.value.change % 100 # 0

\* C22: in a getTrend() result for at least 14 entries the trend agrees
\* with the change that is returned: 'increasing' exactly when change > 20,
\* 'decreasing' exactly when change < -20, 'stable' otherwise.
C22_TrendAgreesWithReturnedChange ==
    TrendComputed =>
        LET r == analysis.value
        IN /\ r.trend = "increasing" <=> r.change > 2000
           /\ r.trend = "decreasing" <=> r.change < -2000
           /\ r.trend = "stable" <=> (r.change >= -2000 /\ r.change <= 2000)

\* C23: getTrend() on fewer than 14 entries returns insufficient_data with
\* change, last_week and previous_week 0, whatever the counts and dates.
C23_ShortSeriesInsufficient ==
    (analysis.op = "getTrend" /\ Len(arrived.daily_stats) < 14) =>
        analysis.value = [trend |-> "insufficient_data", change |-> 0,
                          last_week |-> 0, previous_week |-> 0]

\* getTrend() has returned insufficient_data for 13 days, the most recent
\* of them with more logs than the day one week before it.
C23_Witness ==
    /\ analysis.op = "getTrend"
    /\ Len(arrived.daily_stats) = 13
    /\ \E i, j \in 1..13 :
          /\ arrived.daily_stats[i].date = arrived.daily_stats[j].date + 7
          /\ arrived.daily_stats[i].count > arrived.daily_stats[j].count
          /\ arrived.daily_stats[j].count > 0
    /\ analysis.value.trend = "insufficient_data"

\* C24: getErrorRate() returns the counts of the levels error and critical
\* over the counts of all levels, times 100, and 0 when the list is empty
\* or all counts are 0; the result is between 0 and 100.
C24_ErrorRate ==
    analysis.op = "getErrorRate" =>
        LET l == arrived.stats_by_level
            total == SumAt(l, 1..Len(l))
            errors == SumAt(l, {i \in 1..Len(l) : l[i].level \in {"error", "critical"}})
            rate == analysis.value
        IN /\ total = 0 => rate.num = 0
           /\ total > 0 => rate.num * total = errors * 100 * rate.den
           /\ rate.den > 0
           /\ 0 <= rate.num
           /\ rate.num <= 100 * rate.den

\* getErrorRate() has returned 20 for a list with errors and criticals.
C24_Witness ==
    /\ analysis.op = "getErrorRate"
    /\ \E i, j \in 1..Len(arrived.stats_by_level) :
          /\ arrived.stats_by_level[i].level = "error"
          /\ arrived.stats_by_level[j].level = "critical"
          /\ arrived.stats_by_level[i].count > 0
          /\ arrived.stats_by_level[j].count > 0
    /\ analysis.value = [num |-> 20, den |-> 1]

\* C25: getMostFrequentLevel() and getPeakDay() return the entry with the
\* greatest count, the first of them in the order of the input when several
\* have it, and null for an empty input.
C25_FirstOfTheMaxima ==
    /\ analysis.op = "getMostFrequentLevel" =>
          LET l == arrived.stats_by_level
          IN IF l = <<>>
             THEN analysis.value = Null
             ELSE \E i \in 1..Len(l) :
                     /\ IsFirstMax(l, i)
                     /\ analysis.value.level = l[i].level
                     /\ analysis.value.count = l[i].count
    /\ analysis.op = "getPeakDay" =>
          LET s == arrived.daily_stats
          IN IF s = <<>>
             THEN analysis.value = Null
             ELSE \E i \in 1..Len(s) : IsFirstMax(s, i) /\ analysis.value = s[i]

\* getPeakDay() has returned the first of two days with the greatest count,
\* which is not the first entry of the series.
C25_Witness ==
    /\ analysis.op = "getPeakDay"
    /\ \E i, j \in 1..Len(arrived.daily_stats) :
          /\ 1 < i
          /\ i < j
          /\ IsFirstMax(arrived.daily_stats, i)
          /\ arrived.daily_stats[j].count = arrived.daily_stats[i].count
          /\ analysis.value = arrived.daily_stats[i]

\* C26: no analytics function changes the content or the order of the level
\* list or of the daily series of the data it reads.
C26_SnapshotUntouched ==
    response = arrived

---------------------------------------------------------------------------
\* The retry queue after a clear, in the long run, and what it reports.

\* C27: after clearRetryQueue(), as long as the application makes no new
\* log() call, the queue holds no record: no retry that was scheduled before
\* the clear puts one back (stated for the records that pass validation,
\* and for a clear made while no send was in flight).
C27_StaysEmptyAfterClear ==
    quiet => \A i \in 1..Len(retryQueue) : ~ValidLogData(retryQueue[i])

\* C28: once nothing is left to happen, no send in flight and no timer
\* pending, the queue is empty: were it not, it would stay non-empty for
\* ever though no log() call is made and no delivery attempt fails any more
\* (stated for the records that pass validation).
C28_NothingLeftBehind ==
    (inflight = {} /\ timers = {}) =>
        \A i \in 1..Len(retryQueue) : ~ValidLogData(retryQueue[i])

\* C29: the retryCount that getRetryQueueStatus() reports for an item is
\* the number of delivery attempts of its record that have failed so far
\* (stated for the records that pass validation and whose key no other
\* log() call has).
C29_RetryCountIsFailures ==
    \A i \in 1..Len(retryQueue), id \in Ids :
        (/\ ValidLogData(calls[id])
         /\ SameKey(retryQueue[i], calls[id])
         /\ \A j \in Ids : SameKey(calls[j], calls[id]) => j = id)
        => GetRetryQueueStatus(retryQueue).items[i].retryCount = calls[id].failed

\* C30: a child logger has a retry queue of its own, empty when child()
\* returns it.  A step that changes the queue of a child is a step of that
\* child and leaves the queue, the sends, the timers and the calls of the
\* parent as they are; a step that changes the queue of the parent leaves
\* every child as it is, and so does clearRetryQueue() on the parent;
\* flush() on the parent returns whether the parent's queue is empty,
\* whatever the children's queues hold.
C30_QueuesApart ==
    [][/\ Len(children') > Len(children) =>
             children'[Len(children')].retryQueue = <<>>
       /\ \A c \in 1..Len(children) :
             children'[c].retryQueue # children[c].retryQueue =>
                 /\ retryQueue' = retryQueue
                 /\ inflight' = inflight
                 /\ timers' = timers
                 /\ calls' = calls
       /\ retryQueue' # retryQueue => children' = children
       /\ (retryQueue # <<>> /\ ClearRetryQueue) => children' = children
       /\ FlushReturns => (flushResult' = (retryQueue = <<>>))]_vars

\* The parent's log() failed and the parent's queue was cleared; the child
\* holds an item of its own failed log(), and flush() on the parent has
\* returned true.
C30_Witness ==
    /\ Len(children) = 1
    /\ children[1].retryQueue # <<>>
    /\ Len(calls) > 0
    /\ calls[1].failed > 0
    /\ quiet
    /\ retryQueue = <<>>
    /\ flushPc = "done"
    /\ flushResult

====
